---- MODULE Spec2Model ----
(***************************************************************************)
(* The page interaction script of the portfolio (src/js/main.js and its    *)
(* leaner variant src/unnamed/part_000) as a state machine: one page load  *)
(* runs init() to completion, then the installed handlers react to toggle  *)
(* clicks, OS theme-change notifications, anchor clicks, intersection      *)
(* batches, form submissions and mouse moves.  localStorage survives a     *)
(* reload, the document does not.                                          *)
(***************************************************************************)
EXTENDS Integers, Sequences, FiniteSets, TLC

VARIABLES
    env,          \* what the browser and the markup provide; fixed for a run
    osPref,       \* the OS colour scheme: "light", "dark" or "none"
    page,         \* the document, the handlers installed on it, and localStorage
    phase,        \* "unloaded", "waitDOM" (DOMContentLoaded pending), "ready"
    session,      \* number of page loads so far
    userToggled,  \* history: the user has clicked the theme toggle
    prevTheme,    \* history: data-theme when the previous page session ended
    boot,         \* history: what getInitialTheme read and returned at this load
    lastEvent     \* history: the last event delivered to the page

vars == <<env, osPref, page, phase, session, userToggled, prevTheme, boot, lastEvent>>

-----------------------------------------------------------------------------
(* Bounds *)

MaxSessions == 2      \* page loads over the same storage
NumCandidates == 3    \* reveal-candidate elements in the markup
MaxEntries == 2       \* entries in one IntersectionObserver callback batch
MaxSubmits == 2       \* form submissions in one page session

ParticleCount == 15   \* main.js: for (let i = 0; i < 15; i++)

-----------------------------------------------------------------------------
(* Values *)

\* JavaScript null: getItem of an absent key, getAttribute of an absent attribute.
Null == "<null>"

Themes == {"light", "dark"}

\* What may sit under key 'theme' when the script starts.
StoredValues == {Null, "", "light", "dark", "blue"}

\* JavaScript truthiness of a getItem result: null and "" are falsy.
Truthy(v) == v # Null /\ v # ""

Variants == {"main", "part_000"}

\* The browser APIs and the markup around the script: .theme-toggle with its
\* .icon and .text, #current-year, .contact-form, .hero, .code-block, and
\* document.readyState when the script runs.  A toggle control may lack either
\* sub-element.
Envs ==
    { e \in [ variant : Variants,
              localStorage : BOOLEAN,
              matchMedia : BOOLEAN,
              toggle : BOOLEAN,
              icon : BOOLEAN,
              text : BOOLEAN,
              year : BOOLEAN,
              form : BOOLEAN,
              hero : BOOLEAN,
              codeBlock : BOOLEAN,
              readyState : {"loading", "complete"} ] :
        ~e.toggle => (~e.icon /\ ~e.text) }

\* Reveal candidates in document order; the three selecting classes take turns.
ClassOf(i) ==
    CASE i % 3 = 1 -> "project-card"
      [] i % 3 = 2 -> "skill-item"
      [] OTHER     -> "contact-item"

Candidates == { <<ClassOf(i), i>> : i \in 1..NumCandidates }

\* a[href^="#"] anchors by the fragment after '#': "" is href="#", "about" and
\* "contact" have an element with that id, "missing" has none.  Every fragment
\* is taken to be a valid id selector, as the hrefs of the page's sections are.
Fragments == {"", "about", "contact", "missing"}
ElementIds == {"about", "contact"}

\* What an anchor click did: the href's fragment, whether preventDefault was
\* called, the number of scrollIntoView calls and the element they were made on.
NoNav == [frag |-> Null, prevented |-> FALSE, scrolls |-> 0, target |-> Null]

\* A freshly parsed document over the given storage content.
NewPage(stored) ==
    [ dataTheme   |-> Null,       \* documentElement data-theme
      storedTheme |-> stored,     \* localStorage 'theme'
      iconText    |-> Null,       \* .theme-toggle .icon textContent
      labelText   |-> Null,       \* .theme-toggle .text textContent
      listeners   |-> {},         \* handlers installed so far
      threw       |-> FALSE,      \* an exception escaped the running handler
      initLog     |-> << >>,      \* initializers in the order they ran
      applied     |-> Null,       \* argument of the last applyTheme call
      yearSet     |-> FALSE,      \* #current-year was written
      observed    |-> {},         \* targets the IntersectionObserver watches
      fadeIn      |-> {},         \* elements carrying 'animate-fade-in'
      hidden      |-> {},         \* elements whose style.opacity is '0'
      reveals     |-> [c \in Candidates |-> 0],  \* times the class went absent -> present
      particles   |-> 0,          \* .particle children of .hero
      nav         |-> NoNav,      \* what the last anchor click did
      formFields  |-> "initial",  \* .contact-form fields: "initial" or "typed"
      submits     |-> 0,          \* submit events the handler has received
      alerts      |-> 0,          \* alert() calls
      requests    |-> 0,          \* network requests made for the form
      submitOps   |-> << >>,      \* what the last submit handler run did, in order
      transform   |-> Null ]      \* .code-block style.transform, as <<moveX, moveY>>

-----------------------------------------------------------------------------
(* ThemeManager *)

\* window.matchMedia('(prefers-color-scheme: <scheme>)').matches
MediaMatches(e, os, scheme) == os = scheme

\* The variant's media query and its fallback (main.js:21-25, part_000:21-25).
OverrideScheme(e) == IF e.variant = "main" THEN "light" ELSE "dark"
DefaultTheme(e) == IF e.variant = "main" THEN "dark" ELSE "light"

\* Mutant: both variants query (prefers-color-scheme: dark) and fall back to light.
getInitialTheme_SameQuery(e, os, p) ==
    IF ~e.localStorage THEN [threw |-> TRUE, value |-> Null]
    ELSE IF Truthy(p.storedTheme) THEN [threw |-> FALSE, value |-> p.storedTheme]
    ELSE IF e.matchMedia /\ MediaMatches(e, os, "dark")
         THEN [threw |-> FALSE, value |-> "dark"]
    ELSE [threw |-> FALSE, value |-> "light"]

\* Mutant: the OS preference is consulted before the stored value.
getInitialTheme_OsFirst(e, os, p) ==
    IF ~e.localStorage THEN [threw |-> TRUE, value |-> Null]
    ELSE IF e.matchMedia /\ MediaMatches(e, os, OverrideScheme(e))
         THEN [threw |-> FALSE, value |-> OverrideScheme(e)]
    ELSE IF Truthy(p.storedTheme) THEN [threw |-> FALSE, value |-> p.storedTheme]
    ELSE [threw |-> FALSE, value |-> DefaultTheme(e)]

\* getInitialTheme: [threw, value].  Without localStorage line 15 throws.
getInitialTheme(e, os, p) ==
    IF ~e.localStorage THEN [threw |-> TRUE, value |-> Null]
    ELSE IF Truthy(p.storedTheme) THEN [threw |-> FALSE, value |-> p.storedTheme]
    ELSE IF e.matchMedia /\ MediaMatches(e, os, OverrideScheme(e))
         THEN [threw |-> FALSE, value |-> OverrideScheme(e)]
    ELSE [threw |-> FALSE, value |-> DefaultTheme(e)]

\* updateToggleButton: no toggle is an early return; a toggle without .icon makes
\* icon.textContent throw before the label is touched.
updateToggleButton(e, p, theme) ==
    IF ~e.toggle THEN p
    ELSE IF ~e.icon THEN [p EXCEPT !.threw = TRUE]
    ELSE LET q == [p EXCEPT !.iconText = IF theme = "dark" THEN "sun" ELSE "moon"]
         IN  IF e.text
             THEN [q EXCEPT !.labelText = IF theme = "dark" THEN "Light" ELSE "Dark"]
             ELSE q

\* Mutant: the theme is applied to the document but not persisted.
applyTheme_NoPersist(e, p, theme) ==
    LET p1 == [p EXCEPT !.dataTheme = theme, !.applied = theme]
    IN  IF ~e.localStorage THEN [p1 EXCEPT !.threw = TRUE]
        ELSE updateToggleButton(e, p1, theme)

\* applyTheme: setAttribute, then setItem, then updateToggleButton.
applyTheme(e, p, theme) ==
    LET p1 == [p EXCEPT !.dataTheme = theme, !.applied = theme]
    IN  IF ~e.localStorage THEN [p1 EXCEPT !.threw = TRUE]
        ELSE updateToggleButton(e, [p1 EXCEPT !.storedTheme = theme], theme)

\* toggleTheme: anything but 'dark' on the root flips to 'dark'.
toggleTheme(e, p) ==
    applyTheme(e, p, IF p.dataTheme = "dark" THEN "light" ELSE "dark")

\* watchSystemTheme: subscribes the change listener unless matchMedia is absent.
watchSystemTheme(e, p) ==
    IF ~e.matchMedia THEN p
    ELSE [p EXCEPT !.listeners = @ \cup {"change"}]

\* Mutant: the listener applies the OS theme without reading the stored value.
onSystemThemeChange_Unguarded(e, p, matches) ==
    applyTheme(e, p, IF matches THEN "dark" ELSE "light")

\* The change listener installed by watchSystemTheme (lines 65-72).
onSystemThemeChange(e, p, matches) ==
    IF ~Truthy(p.storedTheme)
    THEN applyTheme(e, p, IF matches THEN "dark" ELSE "light")
    ELSE p

\* Mutant: init shows the initial theme without persisting it.
ThemeManagerInit_NoPersist(e, os, p) ==
    LET r == getInitialTheme(e, os, p)
    IN  IF r.threw THEN [p EXCEPT !.threw = TRUE]
        ELSE LET p1 == applyTheme_NoPersist(e, p, r.value)
             IN  IF p1.threw THEN p1
                 ELSE LET p2 == watchSystemTheme(e, p1)
                      IN  IF e.toggle
                          THEN [p2 EXCEPT !.listeners = @ \cup {"click"}]
                          ELSE p2

\* ThemeManager.init; an exception in getInitialTheme or applyTheme ends it.
ThemeManagerInit(e, os, p) ==
    LET r == getInitialTheme(e, os, p)
    IN  IF r.threw THEN [p EXCEPT !.threw = TRUE]
        ELSE LET p1 == applyTheme(e, p, r.value)
             IN  IF p1.threw THEN p1
                 ELSE LET p2 == watchSystemTheme(e, p1)
                      IN  IF e.toggle
                          THEN [p2 EXCEPT !.listeners = @ \cup {"click"}]
                          ELSE p2

-----------------------------------------------------------------------------
(* The other initializers and their handlers *)

Log(p, name) == [p EXCEPT !.initLog = Append(@, name)]

\* updateFooterYear: writes the year when #current-year exists.
updateFooterYear(e, p) ==
    IF e.year THEN [p EXCEPT !.yearSet = TRUE] ELSE p

\* initSmoothScroll: a click listener on every a[href^="#"].
initSmoothScroll(e, p) == [p EXCEPT !.listeners = @ \cup {"anchor"}]

\* document.querySelector(href) for href = '#' + frag: the element or null.
QuerySelector(frag) == IF frag \in ElementIds THEN frag ELSE Null

\* Mutant: preventDefault is called before the href === '#' test.
anchorClick_PreventFirst(p, frag) ==
    LET target == QuerySelector(frag)
    IN  IF frag = "" THEN [p EXCEPT !.nav = [NoNav EXCEPT !.frag = frag, !.prevented = TRUE]]
        ELSE IF target # Null
             THEN [p EXCEPT !.nav = [NoNav EXCEPT !.frag = frag, !.prevented = TRUE,
                                                  !.scrolls = 1, !.target = target]]
             ELSE [p EXCEPT !.nav = [NoNav EXCEPT !.frag = frag, !.prevented = TRUE]]

\* The anchor click listener (lines 95-107): what one click on href '#'+frag does.
anchorClick(p, frag) ==
    IF frag = "" THEN [p EXCEPT !.nav = [NoNav EXCEPT !.frag = frag]]
    ELSE LET target == QuerySelector(frag)
         IN  IF target # Null
             THEN [p EXCEPT !.nav = [NoNav EXCEPT !.frag = frag, !.prevented = TRUE,
                                                  !.scrolls = 1, !.target = target]]
             ELSE [p EXCEPT !.nav = [NoNav EXCEPT !.frag = frag, !.prevented = TRUE]]

\* Mutant: the class is added but the target stays observed.
revealEntry_NoUnobserve(p, en) ==
    IF en.isIntersecting
    THEN [p EXCEPT !.fadeIn = @ \cup {en.target},
                   !.reveals[en.target] = IF en.target \in p.fadeIn THEN @ ELSE @ + 1]
    ELSE p

\* One entry of the observer callback (lines 134-137): classList.add, unobserve.
revealEntry(p, en) ==
    IF en.isIntersecting
    THEN [p EXCEPT !.fadeIn = @ \cup {en.target},
                   !.reveals[en.target] = IF en.target \in p.fadeIn THEN @ ELSE @ + 1,
                   !.observed = @ \ {en.target}]
    ELSE p

\* The IntersectionObserver callback (lines 132-139): entries.forEach in order.
RECURSIVE observerCallback(_, _)
observerCallback(p, entries) ==
    IF entries = << >> THEN p
    ELSE observerCallback(revealEntry(p, Head(entries)), Tail(entries))

\* initScrollAnimations: every candidate is observed; main.js (lines 144, 151,
\* 158) also sets its opacity to '0', part_000 (lines 142-144) does not.
initScrollAnimations(e, p) ==
    IF e.variant = "main"
    THEN [p EXCEPT !.hidden = @ \cup Candidates,
                   !.observed = @ \cup Candidates]
    ELSE [p EXCEPT !.observed = @ \cup Candidates]

\* initFormHandling: a submit listener when .contact-form exists.
initFormHandling(e, p) ==
    IF e.form THEN [p EXCEPT !.listeners = @ \cup {"submit"}] ELSE p

\* Mutant: the handler acknowledges and resets without preventDefault.
formSubmit_NoPrevent(p) ==
    [p EXCEPT !.submits = @ + 1,
              !.alerts = @ + 1,
              !.formFields = "initial",
              !.submitOps = <<"alert", "reset">>]

\* The submit listener (lines 221-230): preventDefault, alert, this.reset().
\* reset() restores the fields' initial values.
formSubmit(p) ==
    [p EXCEPT !.submits = @ + 1,
              !.alerts = @ + 1,
              !.formFields = "initial",
              !.submitOps = <<"preventDefault", "alert", "reset">>]

\* A submit event reaches the form: the listener runs, then the browser sends
\* the form unless preventDefault was called.
dispatchSubmit(p) ==
    LET q == formSubmit(p)
    IN  IF "preventDefault" \in { q.submitOps[i] : i \in 1..Len(q.submitOps) }
        THEN q
        ELSE [q EXCEPT !.requests = @ + 1]

\* initParallaxEffect (main.js only): a mousemove listener when .hero exists.
initParallaxEffect(e, p) ==
    IF e.hero THEN [p EXCEPT !.listeners = @ \cup {"mousemove"}] ELSE p

\* The mousemove listener (lines 171-181), the pointer at x%, y% of the
\* viewport: (mouse - 0.5) * 20 is (percent - 50) / 5.
parallaxMove(e, p, x, y) ==
    IF e.codeBlock
    THEN [p EXCEPT !.transform = <<(x - 50) \div 5, (y - 50) \div 5>>]
    ELSE p

\* Mutant: the loop runs for i <= 15.
addParticleEffect_OneMore(e, p) ==
    IF e.hero THEN [p EXCEPT !.particles = @ + ParticleCount + 1] ELSE p

\* addParticleEffect (main.js only): 15 particles appended to .hero.
addParticleEffect(e, p) ==
    IF e.hero THEN [p EXCEPT !.particles = @ + ParticleCount] ELSE p

\* The group init() runs at once or on DOMContentLoaded (lines 248-251 / 254-257).
deferredInit(e, p) ==
    LET p1 == initScrollAnimations(e, Log(p, "initScrollAnimations"))
        p2 == initFormHandling(e, Log(p1, "initFormHandling"))
    IN  IF e.variant = "main"
        THEN addParticleEffect(e, Log(initParallaxEffect(e, Log(p2, "initParallaxEffect")),
                                      "addParticleEffect"))
        ELSE p2

\* init(): an exception escaping ThemeManager.init ends the script there.
init(e, os, p) ==
    LET p1 == ThemeManagerInit(e, os, Log(p, "ThemeManager.init"))
    IN  IF p1.threw THEN p1
        ELSE LET p2 == updateFooterYear(e, Log(p1, "updateFooterYear"))
                 p3 == initSmoothScroll(e, Log(p2, "initSmoothScroll"))
             IN  IF e.readyState = "loading"
                 THEN [p3 EXCEPT !.listeners = @ \cup {"DOMContentLoaded"}]
                 ELSE deferredInit(e, p3)

-----------------------------------------------------------------------------
(* The state machine *)

NoBoot == [stored |-> Null, os |-> "none", theme |-> Null, applied |-> Null]

\* The states a first page load can start from.
InitWith(envs, stored) ==
    /\ env \in envs
    /\ osPref \in {"light", "dark", "none"}
    /\ \E v \in stored : page = NewPage(v)
    /\ phase = "unloaded"
    /\ session = 1
    /\ userToggled = FALSE
    /\ prevTheme = Null
    /\ boot = NoBoot
    /\ lastEvent = [type |-> "none"]

\* The script is evaluated: init() runs to completion.
RunScript ==
    /\ phase = "unloaded"
    /\ page' = init(env, osPref, page)
    /\ phase' = IF "DOMContentLoaded" \in page'.listeners THEN "waitDOM" ELSE "ready"
    /\ boot' = [stored |-> page.storedTheme, os |-> osPref,
                theme |-> getInitialTheme(env, osPref, page).value,
                applied |-> page'.dataTheme]
    /\ lastEvent' = [type |-> "script"]
    /\ UNCHANGED <<env, osPref, session, userToggled, prevTheme>>

\* The document finishes parsing: the deferred group runs.
DOMContentLoaded ==
    /\ phase = "waitDOM"
    /\ page' = deferredInit(env, [page EXCEPT !.listeners = @ \ {"DOMContentLoaded"}])
    /\ phase' = "ready"
    /\ lastEvent' = [type |-> "DOMContentLoaded"]
    /\ UNCHANGED <<env, osPref, session, userToggled, prevTheme, boot>>

\* The user clicks .theme-toggle.
ToggleClick ==
    /\ "click" \in page.listeners
    /\ page' = toggleTheme(env, page)
    /\ userToggled' = TRUE
    /\ lastEvent' = [type |-> "click"]
    /\ UNCHANGED <<env, osPref, phase, session, prevTheme, boot>>

\* The OS colour scheme changes.  The (prefers-color-scheme: dark) query fires
\* 'change' when its result flips; the listener runs if it was installed.
SystemThemeChange ==
    \E new \in {"light", "dark", "none"} \ {osPref} :
        LET fires == "change" \in page.listeners /\ ((new = "dark") # (osPref = "dark"))
        IN  /\ osPref' = new
            /\ page' = IF fires THEN onSystemThemeChange(env, page, new = "dark") ELSE page
            /\ lastEvent' = IF fires THEN [type |-> "change", matches |-> (new = "dark")]
                                     ELSE [type |-> "os"]
            /\ UNCHANGED <<env, phase, session, userToggled, prevTheme, boot>>

\* The user clicks one of the wired anchors.
AnchorClick ==
    /\ "anchor" \in page.listeners
    /\ \E frag \in Fragments :
          /\ page' = anchorClick(page, frag)
          /\ lastEvent' = [type |-> "anchor", frag |-> frag]
    /\ UNCHANGED <<env, osPref, phase, session, userToggled, prevTheme, boot>>

\* Batches the browser may hand the observer: entries for observed targets.
RECURSIVE Batches(_, _)
Batches(targets, n) ==
    IF n = 0 THEN {<< >>}
    ELSE LET shorter == Batches(targets, n - 1)
         IN  shorter \cup
             { Append(b, [target |-> t, isIntersecting |-> i]) :
                 b \in {x \in shorter : Len(x) = n - 1}, t \in targets, i \in BOOLEAN }

\* The browser delivers a batch of intersection entries.
Intersect ==
    /\ page.observed # {}
    /\ \E entries \in Batches(page.observed, MaxEntries) \ {<< >>} :
          /\ page' = observerCallback(page, entries)
          /\ lastEvent' = [type |-> "intersect",
                           hits |-> { entries[i].target : i \in
                                        { j \in 1..Len(entries) : entries[j].isIntersecting } }]
    /\ UNCHANGED <<env, osPref, phase, session, userToggled, prevTheme, boot>>

\* The user types into the contact form.
TypeInForm ==
    /\ env.form
    /\ phase # "unloaded"
    /\ page.formFields = "initial"
    /\ page' = [page EXCEPT !.formFields = "typed"]
    /\ lastEvent' = [type |-> "input"]
    /\ UNCHANGED <<env, osPref, phase, session, userToggled, prevTheme, boot>>

\* The user submits the contact form after its listener was installed.
Submit ==
    /\ "submit" \in page.listeners
    /\ page.submits < MaxSubmits
    /\ page' = dispatchSubmit(page)
    /\ lastEvent' = [type |-> "submit", before |-> page.formFields]
    /\ UNCHANGED <<env, osPref, phase, session, userToggled, prevTheme, boot>>

\* The pointer moves over the document.
MouseMove ==
    /\ "mousemove" \in page.listeners
    /\ \E x \in {0, 50, 100}, y \in {0, 100} :
          page' = parallaxMove(env, page, x, y)
    /\ lastEvent' = [type |-> "mousemove"]
    /\ UNCHANGED <<env, osPref, phase, session, userToggled, prevTheme, boot>>

\* The page is loaded again over the same storage.
Reload ==
    /\ phase # "unloaded"
    /\ session < MaxSessions
    /\ page' = NewPage(page.storedTheme)
    /\ phase' = "unloaded"
    /\ session' = session + 1
    /\ prevTheme' = page.dataTheme
    /\ boot' = NoBoot
    /\ lastEvent' = [type |-> "reload"]
    /\ UNCHANGED <<env, osPref, userToggled>>

Init == InitWith(Envs, StoredValues)

Next ==
    \/ RunScript
    \/ DOMContentLoaded
    \/ ToggleClick
    \/ SystemThemeChange
    \/ AnchorClick
    \/ Intersect
    \/ TypeInForm
    \/ Submit
    \/ MouseMove
    \/ Reload

Spec == Init /\ [][Next]_vars

\* The handlers share no state but the theme, so each group of claims is checked
\* with the events of its own component, over every page load the others allow.

\* Theme: every browser/markup combination that ThemeManager reads.
ThemeEnvs == { e \in Envs : e.year /\ e.form /\ e.hero /\ e.codeBlock }
InitTheme == InitWith(ThemeEnvs, StoredValues)
NextTheme ==
    \/ RunScript
    \/ DOMContentLoaded
    \/ ToggleClick
    \/ SystemThemeChange
    \/ Reload
SpecTheme == InitTheme /\ [][NextTheme]_vars

\* Pages on which init() gets past ThemeManager.init or is stopped by it.
WiringEnvs == { e \in ThemeEnvs : e.matchMedia /\ e.text = e.icon }
InitWiring == InitWith(WiringEnvs, {Null, "dark"})

\* Reveal animations.
NextReveal ==
    \/ RunScript
    \/ DOMContentLoaded
    \/ Intersect
    \/ Reload
SpecReveal == InitWiring /\ [][NextReveal]_vars

\* In-page navigation.
NextNav ==
    \/ RunScript
    \/ DOMContentLoaded
    \/ AnchorClick
    \/ Reload
SpecNav == InitWiring /\ [][NextNav]_vars

\* Contact form: pages with and without .contact-form.
FormEnvs ==
    { e \in Envs : e.year /\ e.hero /\ e.codeBlock /\ e.matchMedia /\ e.text = e.icon }
InitForm == InitWith(FormEnvs, {Null, "dark"})
NextForm ==
    \/ RunScript
    \/ DOMContentLoaded
    \/ TypeInForm
    \/ Submit
    \/ Reload
SpecForm == InitForm /\ [][NextForm]_vars

\* Decorative effects: pages with and without .hero and .code-block, under the
\* mouse, toggle, anchor and submit events.
EffectEnvs ==
    { e \in Envs : e.year /\ e.form /\ e.matchMedia /\ e.toggle /\ e.icon /\ e.text }
InitEffects == InitWith(EffectEnvs, {"dark"})
NextEffects ==
    \/ RunScript
    \/ DOMContentLoaded
    \/ MouseMove
    \/ ToggleClick
    \/ AnchorClick
    \/ Submit
    \/ Reload
SpecEffects == InitEffects /\ [][NextEffects]_vars

-----------------------------------------------------------------------------
(* Claims about ThemeManager, checked under SpecTheme *)

\* The theme a change notification carries.
ThemeOf(matches) == IF matches THEN "dark" ELSE "light"

\* C1: once applyTheme(T) has been called in a page session, the root
\* data-theme attribute and the value stored under 'theme' both equal the T of
\* the last call, so after init the attribute and the stored value are equal.
C1_AppliedThemeMirrored ==
    /\ page.applied # Null =>
          /\ page.dataTheme = page.applied
          /\ page.storedTheme = page.applied
    /\ page.dataTheme # Null => page.dataTheme = page.storedTheme

\* C1 witness: a toggle click has applied a light/dark theme other than the one
\* init applied, and attribute and storage agree on it.
C1_Witness ==
    /\ userToggled
    /\ lastEvent.type = "click"
    /\ page.applied \in Themes
    /\ page.storedTheme = page.applied
    /\ page.dataTheme = page.applied
    /\ boot.applied # page.applied

\* C2: wherever the toggle is wired, two consecutive toggleTheme calls leave the
\* root attribute and the stored value as they were before the first call.
C2_ToggleTwiceRestores ==
    "click" \in page.listeners =>
        LET twice == toggleTheme(env, toggleTheme(env, page))
        IN  /\ twice.dataTheme = page.dataTheme
            /\ twice.storedTheme = page.storedTheme

\* C3: once the user has clicked the toggle, a step in which the OS colour
\* scheme changes leaves the root attribute and the stored value alone, and
\* within a page session only a click changes them.
C3_ToggledIgnoresOS ==
    [][ userToggled =>
          /\ osPref' # osPref =>
                /\ page'.dataTheme = page.dataTheme
                /\ page'.storedTheme = page.storedTheme
          /\ (page'.dataTheme # page.dataTheme \/ page'.storedTheme # page.storedTheme)
                => lastEvent'.type \in {"click", "script", "reload"}
      ]_vars

\* C3 witness: after a toggle click, a change notification reached the listener.
C3_Witness ==
    /\ userToggled
    /\ lastEvent.type = "change"
    /\ "change" \in page.listeners
    /\ page.dataTheme # ThemeOf(lastEvent.matches)

\* C4: a change notification delivered while the user has never clicked the
\* toggle applies the new OS theme to the root attribute.
C4_AutoSwitchWhenNotToggled ==
    [][ (osPref' # osPref /\ lastEvent'.type = "change" /\ ~userToggled)
          => page'.dataTheme = ThemeOf(lastEvent'.matches) ]_vars

\* The OS part of getInitialTheme's priority order, as the claim words it.
OsOrDefault(b) ==
    IF env.matchMedia /\ b.os \in Themes THEN b.os
    ELSE IF env.variant = "main" THEN "dark" ELSE "light"

\* C5 as stated: any stored value is returned; otherwise the OS preference
\* decides; otherwise the variant default.
C5_StoredValueAlwaysReturned ==
    (phase # "unloaded" /\ env.localStorage) =>
        boot.theme = IF boot.stored # Null THEN boot.stored ELSE OsOrDefault(boot)

\* C5 amended: a non-empty stored value is returned regardless of the OS
\* preference; with nothing stored, or the empty string, the OS preference
\* decides (light yields light, dark yields dark); without the media-query API
\* or an OS preference the variant default is returned.
C5_InitialThemePriority ==
    (phase # "unloaded" /\ env.localStorage) =>
        boot.theme = IF boot.stored \notin {Null, ""} THEN boot.stored
                     ELSE OsOrDefault(boot)

\* C5 witness: the empty string was stored and the OS preference decided, against
\* the variant's default.
C5_Witness ==
    /\ phase # "unloaded"
    /\ boot.stored = ""
    /\ env.matchMedia
    /\ boot.os = "dark"
    /\ env.variant = "part_000"
    /\ boot.theme = "dark"

\* C6: whatever API or element is absent, the script raises no exception and
\* the initializers after ThemeManager.init run.
C6_AbsenceNeverFatal ==
    phase # "unloaded" =>
        /\ ~page.threw
        /\ Len(page.initLog) >= 3
        /\ page.initLog[2] = "updateFooterYear"
        /\ page.initLog[3] = "initSmoothScroll"

\* C7: after init the stored value and the root attribute are 'light' or 'dark',
\* whatever the storage held before the script ran.
C7_ThemeIsLightOrDark ==
    (phase # "unloaded" /\ ~page.threw) =>
        /\ page.storedTheme \in Themes
        /\ page.dataTheme \in Themes

\* C8: when the previous page session ended with theme T applied, init of this
\* session resolves T and applies it, whatever the OS preference is.
C8_ThemePersistsAcrossLoads ==
    (phase # "unloaded" /\ prevTheme # Null) =>
        /\ boot.theme = prevTheme
        /\ boot.applied = prevTheme

\* C8 witness: a second session starts on the theme the user toggled to, against
\* the OS preference of that moment.
C8_Witness ==
    /\ session = 2
    /\ phase # "unloaded"
    /\ userToggled
    /\ env.matchMedia
    /\ prevTheme = "light"
    /\ boot.os = "dark"
    /\ boot.applied = "light"

-----------------------------------------------------------------------------
(* Claims about the reveal animation, checked under SpecReveal *)

\* C9: every candidate gets the marker class at most once: the class goes from
\* absent to present at most once, a target named by an intersecting entry has
\* the class and is unobserved when the callback returns, a target with no
\* intersecting entry keeps its class and observation state, and an element with
\* the class keeps it and stays unobserved for the rest of the page session.
C9_RevealAtMostOnce ==
    /\ [](\A c \in Candidates :
             /\ page.reveals[c] <= 1
             /\ (page.reveals[c] = 1) <=> (c \in page.fadeIn)
             /\ ~(c \in page.fadeIn /\ c \in page.observed))
    /\ [][ /\ lastEvent'.type = "intersect" =>
                \A c \in Candidates :
                    IF c \in lastEvent'.hits
                    THEN c \in page'.fadeIn /\ c \notin page'.observed
                    ELSE /\ (c \in page'.fadeIn) <=> (c \in page.fadeIn)
                         /\ (c \in page'.observed) <=> (c \in page.observed)
           /\ lastEvent'.type # "reload" =>
                \A c \in page.fadeIn : c \in page'.fadeIn /\ c \notin page'.observed
         ]_vars

\* C9 witness: an element was revealed once and a later batch, with an
\* intersecting entry for another element, has been delivered since.
C9_Witness ==
    /\ lastEvent.type = "intersect"
    /\ \E c \in Candidates, d \in Candidates :
          /\ page.reveals[c] = 1
          /\ c \notin lastEvent.hits
          /\ d \in lastEvent.hits
          /\ page.observed # {}

-----------------------------------------------------------------------------
(* Claims about in-page navigation, checked under SpecNav *)

-----------------------------------------------------------------------------
(* Claims about the contact form, checked under SpecForm *)

\* C11: every submit event the handler receives prevents the default
\* submission first, then raises one alert, then resets the form; no request is
\* made, n submissions have raised n alerts, and the fields hold their initial
\* values after each.
C11_SubmitAcknowledgedLocally ==
    /\ page.alerts = page.submits
    /\ page.requests = 0
    /\ page.submits > 0 => page.submitOps = <<"preventDefault", "alert", "reset">>
    /\ lastEvent.type = "submit" => page.formFields = "initial"

\* C11 witness: the second submission of typed-in fields has been acknowledged.
C11_Witness ==
    /\ lastEvent.type = "submit"
    /\ lastEvent.before = "typed"
    /\ page.submits = 2
    /\ page.alerts = 2
    /\ page.formFields = "initial"

-----------------------------------------------------------------------------
(* Claims about init(), checked under SpecTheme *)

\* The initializers init() calls at once, and those of the group that waits
\* for DOMContentLoaded when the document is still loading.
EarlyInitializers == <<"ThemeManager.init", "updateFooterYear", "initSmoothScroll">>
LateInitializers ==
    IF env.variant = "main"
    THEN <<"initScrollAnimations", "initFormHandling", "initParallaxEffect",
           "addParticleEffect">>
    ELSE <<"initScrollAnimations", "initFormHandling">>

\* C12: once the script has run, the initializers have run in the fixed order,
\* each exactly once: while DOMContentLoaded is pending exactly the first three,
\* and once it has fired, or when the document was not loading, all of them.
C12_InitOrder ==
    /\ phase = "waitDOM" =>
          /\ env.readyState = "loading"
          /\ page.initLog = EarlyInitializers
    /\ phase = "ready" => page.initLog = EarlyInitializers \o LateInitializers

-----------------------------------------------------------------------------
(* Further claims about ThemeManager, checked under SpecTheme *)

\* The theme a label names.
ThemeNamed(label) ==
    CASE label = "Light" -> "light"
      [] label = "Dark"  -> "dark"
      [] OTHER           -> Null

\* C13: on a page whose toggle control has a label, after the script has run the
\* label reads 'Light' exactly when data-theme is 'dark' and 'Dark' otherwise,
\* and the next toggleTheme call applies the theme the label names.
C13_ToggleAdvertisesNextTheme ==
    (env.toggle /\ env.text /\ phase # "unloaded") =>
        /\ page.labelText = IF page.dataTheme = "dark" THEN "Light" ELSE "Dark"
        /\ toggleTheme(env, page).dataTheme = ThemeNamed(page.labelText)

\* C14: once applyTheme has been called in a page session a non-empty value is
\* stored under 'theme', also while the user has never clicked; whenever the
\* change listener is installed a value is already stored; and no step removes
\* a stored value.
C14_StoredOnceApplied ==
    /\ [](/\ page.applied # Null => Truthy(page.storedTheme)
          /\ "change" \in page.listeners => Truthy(page.storedTheme))
    /\ [][page.storedTheme # Null => page'.storedTheme # Null]_vars

\* C14 witness: nothing was stored at load, the user has never clicked, and an
\* OS notification has reached the listener with a value already stored.
C14_Witness ==
    /\ ~userToggled
    /\ boot.stored = Null
    /\ session = 1
    /\ lastEvent.type = "change"
    /\ page.storedTheme \in Themes

-----------------------------------------------------------------------------
(* Further claims about the reveal animation, checked under SpecReveal *)

InitLogHas(name) == \E i \in 1..Len(page.initLog) : page.initLog[i] = name

\* C15: once initScrollAnimations has run, in either variant, every candidate
\* has opacity '0', and every candidate that has not yet got the marker class is
\* observed.
C15_CandidatesHiddenAndObserved ==
    InitLogHas("initScrollAnimations") =>
        \A c \in Candidates :
            /\ c \in page.hidden
            /\ c \notin page.fadeIn => c \in page.observed

-----------------------------------------------------------------------------
(* Claims about the decorative effects, checked under SpecEffects *)

\* Times an initializer has run in this page session.
RunsOf(name) == Cardinality({ i \in 1..Len(page.initLog) : page.initLog[i] = name })

\* C16: in main.js addParticleEffect runs at most once per page load; once it
\* has run, .hero holds exactly 15 particles if it exists, and there are none
\* without it (nor before the run, nor in part_000); no mouse move, toggle
\* click, anchor scroll or submit changes the count.
C16_ParticleCount ==
    /\ RunsOf("addParticleEffect") <= 1
    /\ page.particles =
          IF env.variant = "main" /\ env.hero /\ RunsOf("addParticleEffect") = 1
          THEN 15 ELSE 0

\* C16 witness: 15 particles on a main.js page with .hero after a toggle click,
\* an anchor scroll, a submission and a mouse move.
C16_Witness ==
    /\ env.variant = "main"
    /\ env.hero
    /\ page.particles = 15
    /\ lastEvent.type = "mousemove"
    /\ page.transform # Null
    /\ page.submits > 0
    /\ page.nav.scrolls = 1
    /\ page.applied # boot.applied

====
